---- MODULE Spec2Model ----
(***************************************************************************)
(* A model of find_all_solutions.py (Step 1: estimation of the number of   *)
(* targets, Step 2: discovery of the targets with an adaptive stopping     *)
(* budget) and of quantum_counting.py (quantum counting with an error      *)
(* range).  The quantum simulator is a probabilistic oracle: a measurement *)
(* is a nondeterministic choice among the outcomes of non-zero probability *)
(* of the circuit.  Python floats are modelled by integer arithmetic that  *)
(* decides the same comparisons (see each operator).                       *)
(***************************************************************************)
EXTENDS Integers, Sequences, FiniteSets, TLC

(* Bounds of the model. *)
MaxQubits == 3
MaxTargets == 2
(* The longest cycle of a deterministic oracle. *)
MaxCycle == 4

(* Program constants. *)
ProbMinNum == 1
ProbMinDen == 10
DefaultBudget == 10
ShotsFactor == 10
EstimateDivisor == 9
MainFirstQubits == 3
MainLastQubits == 6
(* math.pi ** 2, in millionths. *)
PiSquared == 9869604

(* Real numbers are integers counting millionths. *)
FixedPoint == 10 ^ 6
(* Distance to an integer below which the rounding of a float is open. *)
Tolerance == 2 * 10 ^ 3

Max(a, b) == IF a >= b THEN a ELSE b
Min(a, b) == IF a <= b THEN a ELSE b
SetMax(S) == CHOOSE x \in S : \A y \in S : y <= x

RECURSIVE SqrtSearch(_, _, _)
SqrtSearch(x, lo, hi) ==
    IF lo >= hi THEN lo
    ELSE LET mid == (lo + hi + 1) \div 2
         IN  IF mid * mid <= x THEN SqrtSearch(x, mid, hi)
                               ELSE SqrtSearch(x, lo, mid - 1)

(* math.floor(math.sqrt(x)) for a non-negative integer x. *)
IntSqrt(x) == SqrtSearch(x, 0, Min(x, 46340))

(* searchSpaceSize = 2 ** numQubits *)
SearchSpaceSize(n) == 2 ^ n

(* int(math.sqrt(searchSpaceSize) * 10) = floor(sqrt(100 * searchSpaceSize)) *)
NumShots(N) == IntSqrt(ShotsFactor * ShotsFactor * N)

(* The product of two non-negative fixed-point numbers, in parts that fit *)
(* the integers of the checker.                                            *)
MulFP(a, b) ==
    LET ah == a \div 1000
        al == a % 1000
        bh == b \div 1000
        bl == b % 1000
    IN  ah * bh + (ah * bl + al * bh) \div 1000 + (al * bl) \div FixedPoint

RECURSIVE CosTerms(_, _, _)
CosTerms(z, k, term) ==
    IF term = 0 THEN 0
    ELSE LET next == MulFP(term, z) \div ((2 * k - 1) * (2 * k))
         IN  (IF k % 2 = 1 THEN 0 - next ELSE next) + CosTerms(z, k + 1, next)

(* math.cos(math.sqrt(z)) by the power series of the cosine in z, for a   *)
(* fixed-point z with 0 <= z <= pi^2.                                      *)
CosFP(z) == FixedPoint + CosTerms(z, 1, FixedPoint)

(* Whether searchSpaceSize * asin(sqrt(s / S))^2 / 9 >= m - 1/2, that is   *)
(* asin(sqrt(s / S)) >= x with x = sqrt(9 (2m - 1) / (2N)): x must be at   *)
(* most pi / 2 and s / S >= sin(x)^2 = (1 - cos(2x)) / 2.                  *)
EstimateAtLeast(N, s, S, m) ==
    LET a == 2 * EstimateDivisor * (2 * m - 1)
    IN  \/ m <= 0
        \/ /\ a * FixedPoint <= PiSquared * N
           /\ (S - 2 * s) * FixedPoint <= S * CosFP((a * FixedPoint) \div N)

(* int(N * asin(sqrt(s / S))^2 / 9 + 0.5) *)
RoundedAsinEstimate(N, s, S) ==
    SetMax({m \in 0..N : EstimateAtLeast(N, s, S, m)})

(* Mestimated of findAllSolutions after line 43:                           *)
(* int(max(N * asin(sqrt(s / S))^2 / 9, len(answersSetFound)) + 0.5)       *)
RoundedEstimate(N, s, S, f) == Max(RoundedAsinEstimate(N, s, S), f)

(* math.floor(math.sqrt(N / M) * math.pi / 4): the greatest k with         *)
(* k^2 <= pi^2 N / (16 M).                                                 *)
GroverIterations(N, M) == IntSqrt((PiSquared * N) \div (16 * M * FixedPoint))

RECURSIVE LeastPower(_, _, _, _, _)
LeastPower(a, b, rn, rd, k) ==
    IF a <= b THEN k ELSE LeastPower(a * rn, b * rd, rn, rd, k + 1)

RECURSIVE GreatestPower(_, _, _, _, _)
GreatestPower(a, b, rn, rd, k) ==
    IF a * rn <= b * rd THEN GreatestPower(a * rn, b * rd, rn, rd, k + 1) ELSE k

(* math.ceil(math.log(probMin) / math.log(rn / rd)) for rn # rd, with      *)
(* probMin = ProbMinNum / ProbMinDen < 1.  For rn < rd it is the least k   *)
(* with (rn/rd)^k <= probMin; for rn > rd it is minus the greatest k with  *)
(* (rn/rd)^k <= 1 / probMin.                                               *)
CeilLogRatio(rn, rd) ==
    IF rn < rd THEN LeastPower(ProbMinDen, ProbMinNum, rn, rd, 0)
               ELSE 0 - GreatestPower(ProbMinNum, ProbMinDen, rn, rd, 0)

(* probResample after the substitution of line 60 / 88, as a fraction. *)
ProbResample(f, M) == IF f = M THEN <<M, M + 1>> ELSE <<f, M>>

(* The budget with probResample capped at 1: a found set larger than the   *)
(* estimate is treated as one of the size of the estimate.                 *)
StoppingBudgetCapped(f, M) ==
    IF f = 0 THEN DefaultBudget
    ELSE CeilLogRatio(ProbResample(Min(f, M), M)[1], ProbResample(Min(f, M), M)[2])

(* numMeasurementsWithNoSolutionsMax of lines 57-61 and 85-89. *)
StoppingBudget(f, M) ==
    IF f = 0 THEN DefaultBudget
    ELSE CeilLogRatio(ProbResample(f, M)[1], ProbResample(f, M)[2])

(* Whether a measurement of the data qubits after k Grover iterations can  *)
(* give a marked element: the probability sin^2((2k+1) theta), with        *)
(* sin^2(theta) = M / N, is zero when M = 0 or theta = 60 degrees and 3    *)
(* divides 2k+1.                                                           *)
CanMeasureMarked(N, M, k) ==
    /\ M > 0
    /\ ~(4 * M = 3 * N /\ (2 * k + 1) % 3 = 0)

(* An unmarked element: the probability cos^2((2k+1) theta) is zero when   *)
(* M = N or theta = 30 degrees and 3 divides 2k+1.                         *)
CanMeasureUnmarked(N, M, k) ==
    /\ M < N
    /\ ~(4 * M = N /\ (2 * k + 1) % 3 = 0)

(* Whether one shot of the circuit can measure the value v. *)
Measurable(N, answers, k, v) ==
    /\ v \in 0..(N - 1)
    /\ IF v \in answers THEN CanMeasureMarked(N, Cardinality(answers), k)
                         ELSE CanMeasureUnmarked(N, Cardinality(answers), k)

RECURSIVE SortedList(_)
(* sorted(list(answersSet)) *)
SortedList(S) ==
    IF S = {} THEN << >>
    ELSE LET m == CHOOSE x \in S : \A y \in S : x <= y
         IN  <<m>> \o SortedList(S \ {m})

(* The sanity checks with a check that numIterations is not negative. *)
GroverSanityCheckNonNegative(numDataQubits, numAncillaQubits, answers, iterations) ==
    /\ numDataQubits >= 2
    /\ numAncillaQubits = numDataQubits - 1
    /\ \A i \in 1..Len(answers) :
          0 <= answers[i] /\ answers[i] <= 2 ^ numDataQubits - 1
    /\ iterations >= 0

(* The sanity checks of addControlledGroverIterator on the numbers of      *)
(* qubits and on the answers; every value of the model is an integer, so   *)
(* the isinstance checks (numIterations among them) pass.                  *)
GroverSanityCheck(numDataQubits, numAncillaQubits, answers, iterations) ==
    /\ numDataQubits >= 2
    /\ numAncillaQubits = numDataQubits - 1
    /\ \A i \in 1..Len(answers) :
          0 <= answers[i] /\ answers[i] <= 2 ^ numDataQubits - 1

(* The number of '0' characters of f"{answer:0{numDataQubits}b}". *)
ZeroBits(answer, numDataQubits) ==
    Cardinality({b \in 0..(numDataQubits - 1) : (answer \div (2 ^ b)) % 2 = 0})

RECURSIVE OracleGates(_, _, _)
(* The gates of the oracle part of one iteration, for answers[i..]. *)
OracleGates(answers, i, numDataQubits) ==
    IF i > Len(answers) THEN 0
    ELSE 2 * ZeroBits(answers[i], numDataQubits) + 2 * (numDataQubits - 1) + 1
         + OracleGates(answers, i + 1, numDataQubits)

(* The gates of the flip about the mean of one iteration. *)
DiffusionGates(numDataQubits) == 4 * numDataQubits + 2 * (numDataQubits - 1) + 1

(* The gates addControlledGroverIterator appends: range(numIterations) is  *)
(* empty for numIterations <= 0.                                           *)
GroverGates(numDataQubits, answers, iterations) ==
    Max(iterations, 0)
        * (OracleGates(answers, 1, numDataQubits) + DiffusionGates(numDataQubits))

RECURSIVE LeastCountingQubits(_, _)
LeastCountingQubits(n, t) ==
    IF (2 ^ t - 1) * (2 ^ t - 1) >= 2 ^ n THEN t ELSE LeastCountingQubits(n, t + 1)

(* math.ceil(math.log(math.sqrt(2 ** numQubits) + 1, 2)): the least t with *)
(* 2^t >= sqrt(2^n) + 1.                                                   *)
NumCountingQubits(n) == LeastCountingQubits(n, 0)

(* math.sin(theta / 2) ** 2 for theta = (y / 2^t) * 2 pi, as               *)
(* (1 - cos(theta')) / 2 with theta' = 2 pi min(y, 2^t - y) / 2^t in       *)
(* [0, pi], which has the same sine squared.                               *)
SinSquaredFP(y, t) ==
    LET yy == Min(y, 2 ^ t - y)
        z  == (PiSquared * yy * yy) \div (4 ^ (t - 1))
    IN  (FixedPoint - CosFP(z)) \div 2

(* numTargetsPredicted = searchSpaceSize * sin(theta / 2)^2 *)
NumTargetsPredictedFP(n, y) == (2 ^ n) * SinSquaredFP(y, NumCountingQubits(n))

(* error of line 88; math.sqrt(2 * numTargetsPredicted * searchSpaceSize)  *)
(* is searchSpaceSize * sqrt(2 sin(theta / 2)^2).                          *)
ErrorFP(n, y) ==
    LET t    == NumCountingQubits(n)
        root == (2 ^ n) * IntSqrt(2 * SinSquaredFP(y, t) * 100) * 100
    IN  ((root + ((2 ^ n) * FixedPoint) \div (2 ^ t)) * 2) \div (2 ^ t)

(* Whether a fixed-point number is so near an integer that the float of   *)
(* the program may lie on either side of it.                               *)
NearInteger(x) ==
    LET k == (x + FixedPoint \div 2) \div FixedPoint
    IN  x - k * FixedPoint <= Tolerance /\ k * FixedPoint - x <= Tolerance

(* The values math.ceil can give for the float modelled by x. *)
CeilChoices(x) ==
    LET k == (x + FixedPoint \div 2) \div FixedPoint
    IN  IF NearInteger(x) THEN {k, k + 1} ELSE {0 - ((0 - x) \div FixedPoint)}

(* The values math.floor can give for the float modelled by x. *)
FloorChoices(x) ==
    LET k == (x + FixedPoint \div 2) \div FixedPoint
    IN  IF NearInteger(x) THEN {k - 1, k} ELSE {x \div FixedPoint}

(* Lines 91-93: minM and maxM, swapped when minM > maxM; upper is the      *)
(* value of the global N of line 92.                                       *)
MinMaxM(n, y, upper) ==
    {IF Max(c, 0) > Min(f, upper) THEN <<Min(f, upper), Max(c, 0)>>
                                  ELSE <<Max(c, 0), Min(f, upper)>> :
        c \in CeilChoices(NumTargetsPredictedFP(n, y) - ErrorFP(n, y)),
        f \in FloorChoices(NumTargetsPredictedFP(n, y) + ErrorFP(n, y))}

(* What a call quantumCounting(n, answers) does when its most frequent     *)
(* measurement is y and the module's global N is globalN (<< >> when the   *)
(* name is not defined): the assertions of line 59, the NameError of line  *)
(* 92, or the 4-tuple of line 95.                                          *)
QuantumCountingOutcomes(n, answers, y, global) ==
    IF ~GroverSanityCheck(n, n - 1, answers, 1)
    THEN {<<"AssertionError", n, 0, 0, 0, 0>>}
    ELSE IF global = << >>
    THEN {<<"NameError", n, 0, 0, 0, 0>>}
    ELSE {<<"returned", n, NumCountingQubits(n), NumTargetsPredictedFP(n, y), mm[1], mm[2]>> :
             mm \in MinMaxM(n, y, global[1])}

VARIABLES
    pc,                               \* position of the running program
    numQubits,                        \* findAllSolutions: n
    numTargets,                       \* findAllSolutions: M
    answersSet,                       \* the targets (ground truth)
    Mestimated,                       \* the rounded estimate of Step 1
    answersSetFound,                  \* the targets found so far
    numShots,                         \* shots of Step 1
    numMeasurements,                  \* total measurements
    numTotalIterations,               \* total Grover iterations
    numAnswersFoundInStep1,
    numMeasurementsWithNoSolutions,   \* fail_count
    numMeasurementsWithNoSolutionsMax,\* max_fail_count
    numIterations,                    \* Grover iterations of the Step 2 circuit
    qc,                               \* number of instructions of the Step 2 circuit
    printed,                          \* the numbers of the final print
    groverCall,                       \* outcome of a direct call of addControlledGroverIterator
    globalN,                          \* quantum_counting.py: the global N, << >> while not defined
    counted,                          \* outcome of the last call of quantumCounting
    samplesDrawn,                     \* history: passes of the loop of line 73
    oracle,                           \* a deterministic oracle: the cycle of values it returns
    oracleIndex,                      \* the position of its next value
    covering,                         \* history: the cycle has covered the targets within the budget
    missesSinceDiscovery              \* history: passes of the loop since the last new solution

findVars == <<numQubits, numTargets, answersSet, Mestimated, answersSetFound,
              numShots, numMeasurements, numTotalIterations, numAnswersFoundInStep1,
              numMeasurementsWithNoSolutions, numMeasurementsWithNoSolutionsMax,
              numIterations, qc, printed>>

callVars == <<groverCall, globalN, counted>>

historyVars == <<samplesDrawn, oracle, oracleIndex, covering, missesSinceDiscovery>>

vars == <<pc, findVars, callVars, historyVars>>

Init ==
    /\ pc = "Start"
    /\ numQubits = 0
    /\ numTargets = 0
    /\ answersSet = {}
    /\ Mestimated = 0
    /\ answersSetFound = {}
    /\ numShots = 0
    /\ numMeasurements = 0
    /\ numTotalIterations = 0
    /\ numAnswersFoundInStep1 = 0
    /\ numMeasurementsWithNoSolutions = 0
    /\ numMeasurementsWithNoSolutionsMax = 0
    /\ numIterations = 0
    /\ qc = 0
    /\ printed = << >>
    /\ groverCall = << >>
    /\ globalN = << >>
    /\ counted = << >>
    /\ samplesDrawn = 0
    /\ oracle = << >>
    /\ oracleIndex = 1
    /\ covering = TRUE
    /\ missesSinceDiscovery = 0

(* findAllSolutions, lines 30-37: generateAnswers draws numTargets         *)
(* distinct targets; the counters start at 0.                              *)
GenerateAnswers(n, M, A) ==
    /\ pc = "Start"
    /\ pc' = "Step1"
    /\ numQubits' = n
    /\ numTargets' = M
    /\ answersSet' = A
    /\ numMeasurements' = 0
    /\ numTotalIterations' = 0
    /\ UNCHANGED <<Mestimated, answersSetFound, numShots, numAnswersFoundInStep1,
                   numMeasurementsWithNoSolutions, numMeasurementsWithNoSolutionsMax,
                   numIterations, qc, printed, callVars>>

(* The outcomes of estimateM's shots: the set F of targets among the keys  *)
(* of the counts and the number s of shots that gave a target.             *)
ShotOutcomes(A, S) ==
    {o \in (SUBSET A) \X (0..S) :
        /\ Cardinality(o[1]) <= o[2]
        /\ (o[1] = {}) <=> (o[2] = 0)}

(* Those of them the circuit of estimateM (one Grover iteration) can give. *)
EstimateOutcomes(N, A, S) ==
    {o \in ShotOutcomes(A, S) :
        /\ o[2] > 0 => CanMeasureMarked(N, Cardinality(A), 1)
        /\ o[2] < S => CanMeasureUnmarked(N, Cardinality(A), 1)}

(* findAllSolutions, lines 42-46, with estimateM (lines 195-231). *)
EstimateM(F, s) ==
    /\ pc = "Step1"
    /\ GroverSanityCheck(numQubits, numQubits - 1, SortedList(answersSet), 1)
    /\ <<F, s>> \in ShotOutcomes(answersSet, NumShots(SearchSpaceSize(numQubits)))
    /\ pc' = "Step2"
    /\ numShots' = NumShots(SearchSpaceSize(numQubits))
    /\ answersSetFound' = F
    /\ Mestimated' = RoundedEstimate(SearchSpaceSize(numQubits), s, numShots', Cardinality(F))
    /\ numMeasurements' = numMeasurements + numShots'
    /\ numTotalIterations' = numTotalIterations + numShots'
    /\ numAnswersFoundInStep1' = Cardinality(F)
    /\ UNCHANGED <<numQubits, numTargets, answersSet, numMeasurementsWithNoSolutions,
                   numMeasurementsWithNoSolutionsMax, numIterations, qc, printed,
                   callVars>>

(* estimateM's call of addControlledGroverIterator (line 210) fails an     *)
(* assertion.                                                              *)
EstimateMFails ==
    /\ pc = "Step1"
    /\ ~GroverSanityCheck(numQubits, numQubits - 1, SortedList(answersSet), 1)
    /\ pc' = "AssertionError"
    /\ UNCHANGED <<findVars, callVars>>

(* The loop condition with the last tolerated miss left out. *)
LoopStateStopsEarly(failCount, maxFailCount) ==
    IF failCount + 1 < maxFailCount THEN "Sampling" ELSE "Converged"

(* The loop condition of line 73. *)
LoopState(failCount, maxFailCount) ==
    IF failCount < maxFailCount THEN "Sampling" ELSE "Converged"

(* The estimate of the remaining targets: the rounded estimate less the    *)
(* targets found in Step 1, at least 0, and 1 in place of 0.               *)
AdjustedEstimate(rounded, foundInStep1) ==
    IF Max(rounded - foundInStep1, 0) <= 0 THEN 1 ELSE rounded - foundInStep1

(* Step 2 entered whatever the estimate, on the adjusted estimate. *)
InitDiscoveryAdjusted ==
    /\ pc = "Step2"
    /\ numMeasurementsWithNoSolutions' = 0
    /\ numMeasurementsWithNoSolutionsMax' =
          StoppingBudget(Cardinality(answersSetFound),
                         AdjustedEstimate(Mestimated, numAnswersFoundInStep1))
    /\ numIterations' = GroverIterations(SearchSpaceSize(numQubits),
                                         AdjustedEstimate(Mestimated, numAnswersFoundInStep1))
    /\ qc' = numQubits
             + GroverGates(numQubits, SortedList(answersSet), numIterations')
             + numQubits
    /\ pc' = "Sampling"
    /\ UNCHANGED <<numQubits, numTargets, answersSet, Mestimated, answersSetFound,
                   numShots, numMeasurements, numTotalIterations,
                   numAnswersFoundInStep1, printed, callVars>>

(* findAllSolutions, lines 52-73: the budget, the circuit and the first    *)
(* test of the loop condition.                                             *)
InitDiscovery ==
    /\ pc = "Step2"
    /\ Mestimated > 0
    /\ numMeasurementsWithNoSolutions' = 0
    /\ numMeasurementsWithNoSolutionsMax' =
          StoppingBudget(Cardinality(answersSetFound), Mestimated)
    /\ numIterations' = GroverIterations(SearchSpaceSize(numQubits), Mestimated)
    /\ qc' = numQubits
             + GroverGates(numQubits, SortedList(answersSet), numIterations')
             + numQubits
    /\ pc' = LoopState(numMeasurementsWithNoSolutions', numMeasurementsWithNoSolutionsMax')
    /\ UNCHANGED <<numQubits, numTargets, answersSet, Mestimated, answersSetFound,
                   numShots, numMeasurements, numTotalIterations,
                   numAnswersFoundInStep1, printed, callVars>>

(* findAllSolutions, line 52 with Mestimated == 0: Step 2 is skipped. *)
SkipDiscovery ==
    /\ pc = "Step2"
    /\ ~(Mestimated > 0)
    /\ pc' = "Converged"
    /\ UNCHANGED <<findVars, callVars>>

(* A new solution whose budget is computed from the count before it. *)
NewSolutionStaleBudget(measuredValue) ==
    /\ pc = "Sampling"
    /\ measuredValue \in answersSet /\ measuredValue \notin answersSetFound
    /\ numMeasurements' = numMeasurements + 1
    /\ numTotalIterations' = numTotalIterations + numIterations
    /\ answersSetFound' = answersSetFound \cup {measuredValue}
    /\ numMeasurementsWithNoSolutions' = 0
    /\ numMeasurementsWithNoSolutionsMax' =
          StoppingBudget(Cardinality(answersSetFound), Mestimated)
    /\ pc' = LoopState(numMeasurementsWithNoSolutions', numMeasurementsWithNoSolutionsMax')
    /\ UNCHANGED <<numQubits, numTargets, answersSet, Mestimated, numShots,
                   numAnswersFoundInStep1, numIterations, qc, printed, callVars>>

(* One pass of the loop, lines 74-90 and the next test of line 73: the     *)
(* measured value is a target not found before.                            *)
NewSolution(measuredValue) ==
    /\ pc = "Sampling"
    /\ measuredValue \in answersSet /\ measuredValue \notin answersSetFound
    /\ numMeasurements' = numMeasurements + 1
    /\ numTotalIterations' = numTotalIterations + numIterations
    /\ answersSetFound' = answersSetFound \cup {measuredValue}
    /\ numMeasurementsWithNoSolutions' = 0
    /\ numMeasurementsWithNoSolutionsMax' =
          StoppingBudget(Cardinality(answersSetFound'), Mestimated)
    /\ pc' = LoopState(numMeasurementsWithNoSolutions', numMeasurementsWithNoSolutionsMax')
    /\ UNCHANGED <<numQubits, numTargets, answersSet, Mestimated, numShots,
                   numAnswersFoundInStep1, numIterations, qc, printed, callVars>>

(* A miss that records the measured value as found. *)
NoSolutionAdds(measuredValue) ==
    /\ pc = "Sampling"
    /\ ~(measuredValue \in answersSet /\ measuredValue \notin answersSetFound)
    /\ numMeasurements' = numMeasurements + 1
    /\ numTotalIterations' = numTotalIterations + numIterations
    /\ answersSetFound' = answersSetFound \cup {measuredValue}
    /\ numMeasurementsWithNoSolutions' = numMeasurementsWithNoSolutions + 1
    /\ pc' = LoopState(numMeasurementsWithNoSolutions', numMeasurementsWithNoSolutionsMax)
    /\ UNCHANGED <<numQubits, numTargets, answersSet, Mestimated,
                   numShots, numAnswersFoundInStep1, numMeasurementsWithNoSolutionsMax,
                   numIterations, qc, printed, callVars>>

(* A miss that resets the count of misses instead of adding to it. *)
NoSolutionResets(measuredValue) ==
    /\ pc = "Sampling"
    /\ ~(measuredValue \in answersSet /\ measuredValue \notin answersSetFound)
    /\ numMeasurements' = numMeasurements + 1
    /\ numTotalIterations' = numTotalIterations + numIterations
    /\ numMeasurementsWithNoSolutions' = 1
    /\ pc' = LoopState(numMeasurementsWithNoSolutions', numMeasurementsWithNoSolutionsMax)
    /\ UNCHANGED <<numQubits, numTargets, answersSet, Mestimated, answersSetFound,
                   numShots, numAnswersFoundInStep1, numMeasurementsWithNoSolutionsMax,
                   numIterations, qc, printed, callVars>>

(* A miss that counts one Grover iteration whatever the circuit holds. *)
NoSolutionCountsOne(measuredValue) ==
    /\ pc = "Sampling"
    /\ ~(measuredValue \in answersSet /\ measuredValue \notin answersSetFound)
    /\ numMeasurements' = numMeasurements + 1
    /\ numTotalIterations' = numTotalIterations + 1
    /\ numMeasurementsWithNoSolutions' = numMeasurementsWithNoSolutions + 1
    /\ pc' = LoopState(numMeasurementsWithNoSolutions', numMeasurementsWithNoSolutionsMax)
    /\ UNCHANGED <<numQubits, numTargets, answersSet, Mestimated, answersSetFound,
                   numShots, numAnswersFoundInStep1, numMeasurementsWithNoSolutionsMax,
                   numIterations, qc, printed, callVars>>

(* A miss that leaves the count of misses as it is. *)
NoSolutionKeepsCount(measuredValue) ==
    /\ pc = "Sampling"
    /\ ~(measuredValue \in answersSet /\ measuredValue \notin answersSetFound)
    /\ numMeasurements' = numMeasurements + 1
    /\ numTotalIterations' = numTotalIterations + numIterations
    /\ pc' = LoopState(numMeasurementsWithNoSolutions, numMeasurementsWithNoSolutionsMax)
    /\ UNCHANGED <<numQubits, numTargets, answersSet, Mestimated, answersSetFound,
                   numShots, numAnswersFoundInStep1, numMeasurementsWithNoSolutions,
                   numMeasurementsWithNoSolutionsMax, numIterations, qc, printed,
                   callVars>>

(* One pass of the loop, lines 74-79, 91-92 and the next test of line 73:  *)
(* the measured value is no target, or a target found before.              *)
NoSolution(measuredValue) ==
    /\ pc = "Sampling"
    /\ ~(measuredValue \in answersSet /\ measuredValue \notin answersSetFound)
    /\ numMeasurements' = numMeasurements + 1
    /\ numTotalIterations' = numTotalIterations + numIterations
    /\ numMeasurementsWithNoSolutions' = numMeasurementsWithNoSolutions + 1
    /\ pc' = LoopState(numMeasurementsWithNoSolutions', numMeasurementsWithNoSolutionsMax)
    /\ UNCHANGED <<numQubits, numTargets, answersSet, Mestimated, answersSetFound,
                   numShots, numAnswersFoundInStep1, numMeasurementsWithNoSolutionsMax,
                   numIterations, qc, printed, callVars>>

(* findAllSolutions, lines 94-95: the numbers of the two printed lines. *)
Report ==
    /\ pc = "Converged"
    /\ pc' = "Reported"
    /\ printed' = <<Cardinality(answersSetFound), numTargets,
                    numMeasurements, numShots, numMeasurements - numShots,
                    numTotalIterations, numShots, numTotalIterations - numShots>>
    /\ UNCHANGED <<numQubits, numTargets, answersSet, Mestimated, answersSetFound,
                   numShots, numMeasurements, numTotalIterations, numAnswersFoundInStep1,
                   numMeasurementsWithNoSolutions, numMeasurementsWithNoSolutionsMax,
                   numIterations, qc, callVars>>

(* The lists of at most two integers a caller passes as answers. *)
AnswerLists(N) ==
    {<< >>} \cup {<<a>> : a \in (0 - 1)..N} \cup {<<a, b>> : a \in (0 - 1)..N, b \in (0 - 1)..N}

(* A direct call of addControlledGroverIterator (lines 113-174) on a       *)
(* circuit: an AssertionError, or the gates appended.                      *)
AddControlledGroverIterator(numDataQubits, numAncillaQubits, answers, iterations) ==
    /\ pc = "Start"
    /\ pc' = "GroverReturned"
    /\ groverCall' =
          IF GroverSanityCheck(numDataQubits, numAncillaQubits, answers, iterations)
          THEN <<"built", numDataQubits, numAncillaQubits, answers, iterations,
                 GroverGates(numDataQubits, answers, iterations)>>
          ELSE <<"AssertionError", numDataQubits, numAncillaQubits, answers, iterations, 0>>
    /\ UNCHANGED <<findVars, globalN, counted>>

(* quantum_counting.py run as a script, lines 193-201: one pass of the     *)
(* loops sets the global N and calls quantumCounting on generated answers. *)
CountingMain(n, y, result) ==
    /\ pc \in {"Start", "CountingMain"}
    /\ IF globalN = << >> THEN TRUE ELSE 2 ^ n >= globalN[1]
    /\ result \in QuantumCountingOutcomes(n, << >>, y, <<2 ^ n>>)
    /\ pc' = "CountingMain"
    /\ globalN' = <<2 ^ n>>
    /\ counted' = result
    /\ UNCHANGED <<findVars, groverCall>>

(* quantum_counting.py imported as a module: the block of line 188 does    *)
(* not run, and a caller calls quantumCounting(n, answers).                *)
CountingImported(n, answers, y, result) ==
    /\ pc \in {"Start", "CountingImported"}
    /\ result \in QuantumCountingOutcomes(n, answers, y, globalN)
    /\ pc' = "CountingImported"
    /\ counted' = result
    /\ UNCHANGED <<findVars, groverCall, globalN>>

(* The run of the two programs and of their callers: the measured values  *)
(* are those the circuits give with non-zero probability.                  *)
Next ==
    \/ /\ pc = "Start"
       /\ \E n \in 1..MaxQubits : \E M \in 0..Min(MaxTargets, SearchSpaceSize(n)) :
             \E A \in {B \in SUBSET (0..(SearchSpaceSize(n) - 1)) : Cardinality(B) = M} :
                GenerateAnswers(n, M, A)
       /\ UNCHANGED historyVars
    \/ /\ pc = "Step1"
       /\ \E o \in EstimateOutcomes(SearchSpaceSize(numQubits), answersSet,
                                     NumShots(SearchSpaceSize(numQubits))) :
             EstimateM(o[1], o[2])
       /\ UNCHANGED historyVars
    \/ EstimateMFails /\ UNCHANGED historyVars
    \/ InitDiscovery /\ UNCHANGED historyVars
    \/ SkipDiscovery /\ UNCHANGED historyVars
    \/ /\ pc = "Sampling"
       /\ \E v \in 0..(SearchSpaceSize(numQubits) - 1) :
             /\ Measurable(SearchSpaceSize(numQubits), answersSet, numIterations, v)
             /\ NewSolution(v)
       /\ samplesDrawn' = samplesDrawn + 1
       /\ missesSinceDiscovery' = 0
       /\ UNCHANGED <<oracle, oracleIndex, covering>>
    \/ /\ pc = "Sampling"
       /\ \E v \in 0..(SearchSpaceSize(numQubits) - 1) :
             /\ Measurable(SearchSpaceSize(numQubits), answersSet, numIterations, v)
             /\ NoSolution(v)
       /\ samplesDrawn' = samplesDrawn + 1
       /\ missesSinceDiscovery' = missesSinceDiscovery + 1
       /\ UNCHANGED <<oracle, oracleIndex, covering>>
    \/ Report /\ UNCHANGED historyVars
    \/ /\ pc = "Start"
       /\ \E nd \in 1..MaxQubits : \E na \in {nd - 1, nd} :
             \E answers \in AnswerLists(SearchSpaceSize(nd)) : \E it \in (0 - 1)..2 :
                AddControlledGroverIterator(nd, na, answers, it)
       /\ UNCHANGED historyVars
    \/ /\ pc \in {"Start", "CountingMain"}
       /\ \E n \in MainFirstQubits..MainLastQubits :
             \E y \in 0..(2 ^ NumCountingQubits(n) - 1) :
                \E result \in QuantumCountingOutcomes(n, << >>, y, <<2 ^ n>>) :
                   CountingMain(n, y, result)
       /\ UNCHANGED historyVars
    \/ /\ pc \in {"Start", "CountingImported"}
       /\ \E n \in 1..MaxQubits : \E answers \in {<< >>, <<0>>, <<2 ^ n>>} :
             \E y \in 0..(2 ^ NumCountingQubits(n) - 1) :
                \E result \in QuantumCountingOutcomes(n, answers, y, globalN) :
                   CountingImported(n, answers, y, result)
       /\ UNCHANGED historyVars

Spec == Init /\ [][Next]_vars

(* A run of findAllSolutions alone, on the targets 0..M-1: the function    *)
(* reads the values of the targets only to test membership, so every other *)
(* draw of generateAnswers behaves as this one up to a renaming of values. *)
NextFind ==
    \/ /\ pc = "Start"
       /\ \E n \in 1..MaxQubits : \E M \in 0..Min(MaxTargets, SearchSpaceSize(n)) :
             GenerateAnswers(n, M, 0..(M - 1))
       /\ UNCHANGED historyVars
    \/ /\ pc = "Step1"
       /\ \E o \in EstimateOutcomes(SearchSpaceSize(numQubits), answersSet,
                                     NumShots(SearchSpaceSize(numQubits))) :
             EstimateM(o[1], o[2])
       /\ UNCHANGED historyVars
    \/ EstimateMFails /\ UNCHANGED historyVars
    \/ InitDiscovery /\ UNCHANGED historyVars
    \/ SkipDiscovery /\ UNCHANGED historyVars
    \/ /\ pc = "Sampling"
       /\ \E v \in 0..(SearchSpaceSize(numQubits) - 1) :
             /\ Measurable(SearchSpaceSize(numQubits), answersSet, numIterations, v)
             /\ NewSolution(v)
       /\ samplesDrawn' = samplesDrawn + 1
       /\ missesSinceDiscovery' = 0
       /\ UNCHANGED <<oracle, oracleIndex, covering>>
    \/ /\ pc = "Sampling"
       /\ \E v \in 0..(SearchSpaceSize(numQubits) - 1) :
             /\ Measurable(SearchSpaceSize(numQubits), answersSet, numIterations, v)
             /\ NoSolution(v)
       /\ samplesDrawn' = samplesDrawn + 1
       /\ missesSinceDiscovery' = missesSinceDiscovery + 1
       /\ UNCHANGED <<oracle, oracleIndex, covering>>
    \/ Report /\ UNCHANGED historyVars

(* Step 2 of findAllSolutions (lines 52-92) is sequential code: once       *)
(* entered, its next statement is executed, and each execute(...) of line  *)
(* 74 returns a measurement.                                               *)
DiscoveryStep == pc \in {"Step2", "Sampling"} /\ NextFind

SpecFair == Init /\ [][NextFind]_vars /\ WF_vars(DiscoveryStep)

(* The cycles of at most MaxCycle values among the targets 0..M-1 and the  *)
(* value M, which is no target.                                            *)
Cycles(M) == UNION {[1..len -> 0..M] : len \in 1..MaxCycle}

(* Whether, from position idx of the cycle, a target not in found comes    *)
(* after fewer than budget other values (or no target is left to find).    *)
Covering(found, budget, idx) ==
    \/ found = answersSet
    \/ \E j \in 0..(budget - 1) :
          oracle[((idx - 1 + j) % Len(oracle)) + 1] \in answersSet \ found

NextIndex == (oracleIndex % Len(oracle)) + 1

(* findAllSolutions on the targets 0..M-1 with the measurements of Step 2  *)
(* taken from a deterministic oracle that cycles through a fixed sequence. *)
NextCycling ==
    \/ /\ pc = "Start"
       /\ \E n \in 2..MaxQubits : \E M \in 0..MaxTargets : \E c \in Cycles(M) :
             /\ GenerateAnswers(n, M, 0..(M - 1))
             /\ oracle' = c
       /\ UNCHANGED <<samplesDrawn, oracleIndex, covering, missesSinceDiscovery>>
    \/ /\ pc = "Step1"
       /\ \E o \in ShotOutcomes(answersSet, NumShots(SearchSpaceSize(numQubits))) :
             EstimateM(o[1], o[2])
       /\ UNCHANGED historyVars
    \/ /\ InitDiscovery
       /\ covering' = Covering(answersSetFound, numMeasurementsWithNoSolutionsMax', oracleIndex)
       /\ UNCHANGED <<samplesDrawn, oracle, oracleIndex, missesSinceDiscovery>>
    \/ /\ SkipDiscovery
       /\ covering' = Covering(answersSetFound, 0, oracleIndex)
       /\ UNCHANGED <<samplesDrawn, oracle, oracleIndex, missesSinceDiscovery>>
    \/ /\ pc = "Sampling"
       /\ NewSolution(oracle[oracleIndex])
       /\ samplesDrawn' = samplesDrawn + 1
       /\ missesSinceDiscovery' = 0
       /\ oracleIndex' = NextIndex
       /\ covering' = (covering /\ Covering(answersSetFound',
                                             numMeasurementsWithNoSolutionsMax', NextIndex))
       /\ UNCHANGED oracle
    \/ /\ pc = "Sampling"
       /\ NoSolution(oracle[oracleIndex])
       /\ samplesDrawn' = samplesDrawn + 1
       /\ missesSinceDiscovery' = missesSinceDiscovery + 1
       /\ oracleIndex' = NextIndex
       /\ UNCHANGED <<oracle, covering>>
    \/ Report /\ UNCHANGED historyVars

SpecCycling == Init /\ [][NextCycling]_vars

(***************************************************************************)
(* The claims.                                                             *)
(***************************************************************************)

InLoop == pc \in {"Sampling", "Converged", "Reported"} /\ Mestimated > 0

(* C1: in the discovery loop, a measured value that is a target and not    *)
(* yet found is added (and nothing else) to the found set, the count of    *)
(* consecutive misses is reset to 0, the budget is recomputed from the new *)
(* size of the found set and Mestimated, and the loop remains in Sampling. *)
C1_DiscoveryKeepsSampling ==
    [][\A v \in 0..(SearchSpaceSize(numQubits) - 1) :
          NewSolution(v) =>
             /\ answersSetFound' = answersSetFound \cup {v}
             /\ numMeasurementsWithNoSolutions' = 0
             /\ numMeasurementsWithNoSolutionsMax' =
                   StoppingBudget(Cardinality(answersSetFound'), Mestimated)
             /\ pc' = "Sampling"]_vars

(* C2: while the loop is sampling the count of consecutive misses is below *)
(* the current budget, and when it has converged the count equals the      *)
(* budget current at that moment.                                          *)
C2_ConvergesAtBudget ==
    /\ pc = "Sampling" =>
          numMeasurementsWithNoSolutions < numMeasurementsWithNoSolutionsMax
    /\ pc = "Converged" =>
          numMeasurementsWithNoSolutions = numMeasurementsWithNoSolutionsMax

(* C3: with a deterministic oracle that cycles through a fixed sequence in *)
(* which, while a target is still to be found, such a target comes after   *)
(* fewer misses than the current budget, the loop run to convergence ends  *)
(* with the found set equal to the set of targets.                         *)
C3_CyclingOracleFindsAll ==
    (pc \in {"Converged", "Reported"} /\ covering) => answersSetFound = answersSet

(* A run in which the oracle covered the targets and Step 2 found one      *)
(* after at least one miss.                                                *)
C3_Witness ==
    /\ pc = "Reported"
    /\ covering
    /\ answersSetFound = answersSet
    /\ Cardinality(answersSetFound) > numAnswersFoundInStep1
    /\ samplesDrawn > Cardinality(answersSetFound) - numAnswersFoundInStep1

(* C4 as stated: the loop starts on the rounded estimate less the targets  *)
(* found in Step 1 (at least 0, and 1 in place of 0), for the iteration    *)
(* count and for the budget, so that a discovery pass is always attempted. *)
C4_AdjustedEstimateUsed ==
    /\ pc \in {"Sampling", "Converged", "Reported"} => qc > 0
    /\ (pc = "Sampling" /\ samplesDrawn = 0) =>
          /\ numIterations =
                GroverIterations(SearchSpaceSize(numQubits),
                                 AdjustedEstimate(Mestimated, numAnswersFoundInStep1))
          /\ numMeasurementsWithNoSolutionsMax =
                StoppingBudget(numAnswersFoundInStep1,
                               AdjustedEstimate(Mestimated, numAnswersFoundInStep1))

(* C4 as amended: the loop starts on the rounded estimate of Step 1 itself *)
(* (never below the number of targets found in Step 1, nothing taken off), *)
(* for the iteration count and for the budget; when the rounded estimate   *)
(* is 0 no circuit is built and no sample is drawn.                        *)
C4_RoundedEstimateUsed ==
    /\ pc \in {"Step2", "Sampling", "Converged", "Reported"} =>
          Mestimated >= numAnswersFoundInStep1
    /\ (pc = "Sampling" /\ samplesDrawn = 0) =>
          /\ Mestimated >= 1
          /\ numIterations = GroverIterations(SearchSpaceSize(numQubits), Mestimated)
          /\ numMeasurementsWithNoSolutionsMax =
                StoppingBudget(numAnswersFoundInStep1, Mestimated)
    /\ (pc \in {"Sampling", "Converged", "Reported"} /\ Mestimated = 0) =>
          qc = 0 /\ samplesDrawn = 0 /\ pc # "Sampling"

(* The loop about to start on an estimate of 2 with one target found in    *)
(* Step 1: the adjusted estimate would be 1.                               *)
C4_Witness ==
    /\ pc = "Sampling"
    /\ samplesDrawn = 0
    /\ Mestimated = 2
    /\ numAnswersFoundInStep1 = 1
    /\ numIterations = 1

(* Whether b is math.ceil(math.log(probMin) / math.log(rn / rd)): the      *)
(* integer with (rn/rd)^b <= probMin < (rn/rd)^(b-1) when rn < rd, and     *)
(* with (rn/rd)^(-b) <= 1/probMin < (rn/rd)^(1-b) when rn > rd.            *)
IsCeilLogRatio(b, rn, rd) ==
    IF rn < rd
    THEN /\ b >= 1
         /\ ProbMinDen * rn ^ b <= ProbMinNum * rd ^ b
         /\ ProbMinDen * rn ^ (b - 1) > ProbMinNum * rd ^ (b - 1)
    ELSE /\ rn > rd
         /\ b <= 0
         /\ ProbMinNum * rn ^ (0 - b) <= ProbMinDen * rd ^ (0 - b)
         /\ ProbMinNum * rn ^ (1 - b) > ProbMinDen * rd ^ (1 - b)

(* C5: at the start of the loop and after every new solution the budget is *)
(* 10 when nothing is found, and otherwise the integer                     *)
(* ceil(ln(probMin) / ln(r)) for r = |found| / Mestimated, with            *)
(* Mestimated / (Mestimated + 1) in place of r = 1.                        *)
C5_BudgetFormula ==
    InLoop =>
       LET f == Cardinality(answersSetFound)
           b == numMeasurementsWithNoSolutionsMax
       IN  /\ b \in Int
           /\ IF f = 0 THEN b = 10
              ELSE IF f = Mestimated THEN IsCeilLogRatio(b, Mestimated, Mestimated + 1)
              ELSE IsCeilLogRatio(b, f, Mestimated)

(* The loop after a new solution that made the found set as large as the   *)
(* estimate of 2: the budget is ceil(ln 0.1 / ln(2/3)) = 6.                *)
C5_Witness ==
    /\ pc = "Sampling"
    /\ Mestimated = 2
    /\ Cardinality(answersSetFound) = 2
    /\ numAnswersFoundInStep1 = 1
    /\ numMeasurementsWithNoSolutionsMax = 6

(* C6: in a run of findAllSolutions no step removes an element of the      *)
(* found set, the found set is a subset of the targets in every state, and *)
(* the set of targets does not change once generated.                      *)
C6_FoundGrowsWithinTargets ==
    [][/\ answersSetFound \subseteq answersSetFound'
       /\ answersSetFound' \subseteq answersSet'
       /\ pc # "Start" => answersSet' = answersSet]_vars

(* A run where Step 1 found a target and Step 2 another one, and a target  *)
(* found before was measured again.                                        *)
C6_Witness ==
    /\ pc = "Sampling"
    /\ numAnswersFoundInStep1 = 1
    /\ Cardinality(answersSetFound) = 2
    /\ numMeasurementsWithNoSolutions >= 1

(* C7: a measured value that is no target, or a target found before, adds  *)
(* exactly 1 to the count of consecutive misses and leaves the found set,  *)
(* the budget, Mestimated and the iteration count of the circuit as they   *)
(* are.                                                                    *)
C7_MissOnlyCounts ==
    [][(/\ pc = "Sampling"
        /\ numMeasurements' = numMeasurements + 1
        /\ ~(\E v \in answersSet \ answersSetFound : v \in answersSetFound')) =>
          /\ numMeasurementsWithNoSolutions' = numMeasurementsWithNoSolutions + 1
          /\ answersSetFound' = answersSetFound
          /\ numMeasurementsWithNoSolutionsMax' = numMeasurementsWithNoSolutionsMax
          /\ Mestimated' = Mestimated
          /\ numIterations' = numIterations
          /\ qc' = qc]_vars

(* The loop after three misses in a row, with a target still to be found. *)
C7_Witness ==
    /\ pc = "Sampling"
    /\ numMeasurementsWithNoSolutions = 3
    /\ answersSetFound # answersSet
    /\ numIterations >= 1

CallFailed == groverCall[1] = "AssertionError"

AnswerOutOfRange ==
    \E i \in 1..Len(groverCall[4]) :
       groverCall[4][i] < 0 \/ groverCall[4][i] >= 2 ^ groverCall[2]

(* C8 as stated: addControlledGroverIterator fails, instead of building a  *)
(* circuit, when there are fewer than 2 data qubits, when an answer lies   *)
(* outside [0, spaceSize), and when the iteration count is negative.       *)
C8_FailsOnNegativeIterations ==
    (groverCall # << >>) =>
       ((groverCall[2] < 2 \/ AnswerOutOfRange \/ groverCall[5] < 0) => CallFailed)

(* C8 as amended: it fails when there are fewer than 2 data qubits and     *)
(* when an answer lies outside [0, spaceSize); a negative iteration count  *)
(* is no error: with the other arguments valid the call appends no gate.   *)
C8_FailsOnQubitsAndAnswers ==
    (groverCall # << >>) =>
       /\ (groverCall[2] < 2 \/ AnswerOutOfRange) => (CallFailed /\ groverCall[6] = 0)
       /\ (/\ groverCall[2] >= 2
           /\ groverCall[3] = groverCall[2] - 1
           /\ ~AnswerOutOfRange
           /\ groverCall[5] < 0) => (groverCall[1] = "built" /\ groverCall[6] = 0)
       /\ (groverCall[1] = "built" /\ groverCall[5] > 0) => groverCall[6] > 0

(* A call with 2 data qubits, 1 ancilla qubit, the answer 3 and -1         *)
(* iterations has returned.                                                *)
C8_Witness ==
    /\ groverCall # << >>
    /\ groverCall[2] = 2
    /\ groverCall[3] = 1
    /\ groverCall[4] = <<3>>
    /\ groverCall[5] = 0 - 1
    /\ groverCall[1] = "built"

(* C9: for every most frequent measurement y and every space size 2^n with *)
(* n >= 2, a call of quantumCounting with valid answers returns minM and   *)
(* maxM with 0 <= minM <= maxM <= 2^n.                                     *)
C9_CountingRange ==
    (counted # << >> /\ counted[1] # "AssertionError") =>
       /\ counted[1] = "returned"
       /\ 0 <= counted[5]
       /\ counted[5] <= counted[6]
       /\ counted[6] <= 2 ^ counted[2]

(* C10: the printed totals are numShots plus the number of samples drawn   *)
(* in the loop (measurements) and numShots plus the iteration count of the *)
(* circuit, floor((pi/4) sqrt(N / Mestimated)), times that number (Grover  *)
(* iterations); both are numShots when Mestimated is 0.                    *)
C10_ReportedTotals ==
    /\ InLoop => /\ numIterations = GroverIterations(SearchSpaceSize(numQubits), Mestimated)
                 /\ numMeasurements = numShots + samplesDrawn
                 /\ numTotalIterations = numShots + numIterations * samplesDrawn
    /\ pc = "Reported" =>
          /\ printed[3] = numShots + samplesDrawn
          /\ printed[6] = numShots * 1 + numIterations * samplesDrawn
          /\ printed[1] = Cardinality(answersSetFound)
          /\ Mestimated = 0 => (printed[3] = numShots /\ printed[6] = numShots)

(* A run reported after the 4 samples, all misses, of a circuit of 2        *)
(* iterations: 8 Grover iterations on top of those of Step 1.              *)
C10_Witness ==
    /\ pc = "Reported"
    /\ numIterations = 2
    /\ samplesDrawn = 4
    /\ printed[6] = numShots + 8
    /\ printed[3] = numShots + 4

(* The bounds of the loop: the new solutions of Step 2 are targets not     *)
(* found in Step 1, a pass of the loop is made only with fewer misses than *)
(* the budget since the last new solution, and no more misses than the     *)
(* budget (none when the budget is not positive) are ever sampled in a row. *)
C11_LoopBounds ==
    /\ Cardinality(answersSetFound) - numAnswersFoundInStep1 <= Cardinality(answersSet)
    /\ Cardinality(answersSetFound) - numAnswersFoundInStep1 <= samplesDrawn
    /\ pc = "Sampling" => missesSinceDiscovery < numMeasurementsWithNoSolutionsMax
    /\ missesSinceDiscovery <= Max(numMeasurementsWithNoSolutionsMax, 0)

(* C11: whatever the targets, the estimate of Step 1 and the measurements, *)
(* the discovery loop terminates: the new solutions are bounded by the     *)
(* number of targets, between two of them at most as many misses as the    *)
(* current budget are sampled, and Step 2 once entered leads to the end of *)
(* the loop.                                                               *)
C11_DiscoveryLoopTerminates ==
    /\ [](C11_LoopBounds)
    /\ (pc \in {"Step2", "Sampling"}) ~> (pc = "Converged")

(* The loop ended by 6 misses in a row, the budget, after a new solution. *)
C11_Witness ==
    /\ pc = "Converged"
    /\ Cardinality(answersSetFound) > numAnswersFoundInStep1
    /\ numMeasurementsWithNoSolutionsMax = 6
    /\ missesSinceDiscovery = 6
    /\ samplesDrawn >= 7

====
